---- MODULE Spec2Model ----
(***************************************************************************)
(* Model of the message-driven video processing pipeline:                  *)
(*   SQSConsumer.consume_messages          (app/sqs_consumer.py)           *)
(*   VideoProcessor.start_sqs_consumer, stop_sqs_consumer,                 *)
(*   VideoProcessor.process_message,                                       *)
(*   VideoProcessor.process_video_from_s3,                                 *)
(*   VideoProcessor._process_video_internal,                               *)
(*   VideoProcessor._send_error_email      (app/video_processor.py)        *)
(*   S3Service.video_exists/download_video (app/s3_service.py)             *)
(*   cleanup_temp_files, generate_unique_id (app/utils.py)                 *)
(*   extract_frames_from_video             (app/utils.py)                  *)
(*   startup_event, shutdown_event, process_s3_video, download_zip         *)
(*                                         (app/main.py)                   *)
(*   print_config                          (app/config.py)                 *)
(*   EmailService._send_notification       (app/email_service.py)          *)
(*                                                                         *)
(* The consumer handles the messages of a batch one after the other; each  *)
(* action below is one stretch of code between two suspension points (or   *)
(* two calls to an external service).  The calls issued to the queue, the  *)
(* artifact store and the notification service are recorded in logs.       *)
(***************************************************************************)
EXTENDS Integers, Sequences, FiniteSets, TLC

\* ---------------------------------------------------------------- bounds
NumMsgs == 2          \* messages on the queue when the consumer starts
MaxPolls == 2         \* receive_message calls explored
MaxFaults == 1        \* failures of external calls injected in one behaviour
MaxRequests == 1      \* POST /process/s3/{s3_key} requests handled
MaxFrames == 30       \* frames of a video given to extract_frames_from_video
MaxRate == 2          \* sampling rates asked of extract_frames_from_video
MaxCleanups == 2      \* cleanup_temp_files calls on one directory tree
MaxSends == 2         \* notifications sent through one EmailService
MaxRuns == 6          \* coroutines on the event loop: the consumer and the
                      \* background tasks of manual requests

\* ------------------------------------------------------ program constants
max_messages == 10    \* consume_messages(max_messages=10)
max_workers == 5      \* ThreadPoolExecutor(max_workers=5)
poll_sleep == 5       \* start_sqs_consumer: asyncio.sleep(5) after consume_messages
error_sleep == 30     \* start_sqs_consumer: asyncio.sleep(30) in the except branch

None == "None"        \* Python None (absent dict key, unset field)
NoFrameCount == -1    \* "frame_count": None in a result

COMPLETED == "completed"
FAILED == "failed"

\* ------------------------------------------------------------ environment
\* Source keys a message may carry.  The store holds a.mp4 (3 frames at the
\* sampling rate) and empty.mp4 (no readable frame); missing.mp4 is absent.
StoredKeys == {"videos/a.mp4", "videos/empty.mp4"}
FramesOf(key) == IF key = "videos/a.mp4" THEN 3 ELSE 0

\* Path(s3_key).name
PathName(key) ==
    CASE key = "videos/a.mp4" -> "a.mp4"
      [] key = "videos/empty.mp4" -> "empty.mp4"
      [] key = "videos/missing.mp4" -> "missing.mp4"
      [] OTHER -> key

\* Raw message bodies: text that is not JSON, and JSON objects with a missing,
\* empty or present s3Key, with or without an email.
Object(s3Key, email) == [kind |-> "object", s3Key |-> s3Key, email |-> email]
RawBodies ==
    {[kind |-> "invalid", s3Key |-> None, email |-> None],
     Object(None, "user@example.com"),
     Object("", None),
     Object("videos/a.mp4", "user@example.com"),
     Object("videos/a.mp4", None),
     Object("videos/empty.mp4", None),
     Object("videos/missing.mp4", "user@example.com")}

\* uuid.uuid4() values, in the order they are drawn (all distinct).
UuidPool == <<"uuid-01", "uuid-02", "uuid-03", "uuid-04", "uuid-05", "uuid-06",
              "uuid-07", "uuid-08", "uuid-09", "uuid-10", "uuid-11", "uuid-12">>

VARIABLES
    NOTIFICATION_SERVICE_URL,  \* TRUE iff the environment variable is set
    bodies,              \* MessageId -> raw body of the messages sent to the queue
    queue,               \* MessageIds still on the queue (not deleted)
    receives,            \* number of receive_message calls issued
    messages,            \* consume_messages: the batch being handled
    i,                   \* consume_messages: index of the message being handled
    processed_messages,  \* consume_messages: the list it builds
    returned,            \* value returned by consume_messages (<<>> until it returns)
    pc,                  \* position of the consumer coroutine
    runs,                \* process_message invocations of this batch; the last one
                         \* may be in flight
    fs,                  \* local filesystem: paths that exist
    nextId,              \* index of the next uuid4 value
    storeCalls,          \* calls issued to the artifact store for this batch
    deleteCalls,         \* delete_message calls issued to the queue for this batch
    notifyCalls,         \* POSTs issued to the notification service for this batch
    escaped,             \* functions an exception has propagated out of
    faults,              \* failures of external calls so far
    is_consuming,        \* VideoProcessor.is_consuming
    sleeping,            \* seconds of the asyncio.sleep in progress (0: none)
    receive_raised,      \* receive_message raised in the last consume_messages
    collisions,          \* local paths written while they already existed
    stopped_early,       \* stop_sqs_consumer ran while the batch in progress
                         \* had messages left after the one being handled
    delivery,            \* per message: times received, times handed to
                         \* process_message, error notifications posted
    processor,           \* main.py: TRUE iff startup_event set `processor`
    http,                \* POST /process/s3/{s3_key} requests handled so far:
                         \* key, response, state of the background task
    tasks,               \* event loop: the coroutines, each with its position
                         \* and the state of the future it awaits
    executor,            \* VideoProcessor.executor: work items running on its
                         \* threads, and its work queue
    loop,                \* event loop: the coroutine being executed (0: none)
    SQS_QUEUE_URL,       \* TRUE iff the environment variable is set
    s3_service,          \* main.py: TRUE iff startup_event set `s3_service`
    consumer_task,       \* main.py: TRUE iff startup_event created the task
    shutdown,            \* shutdown_event has run
    downloads,           \* GET /download/{filename} requests handled so far
    video,               \* extract_frames_from_video: the capture, the frame
                         \* counter and the frames saved by the call in progress
    email_service,       \* EmailService: its configuration and the HTTP
                         \* attempts and return value of _send_notification
    cleanups             \* cleanup_temp_files calls made outside the pipeline:
                         \* paths given, filesystem before and after

vars == <<NOTIFICATION_SERVICE_URL, bodies, queue, receives, messages, i,
          processed_messages, returned, pc, runs, fs, nextId, storeCalls,
          deleteCalls, notifyCalls, escaped, faults, is_consuming, sleeping,
          receive_raised, collisions, stopped_early, delivery, processor, http,
          tasks, executor, loop, SQS_QUEUE_URL, s3_service, consumer_task,
          shutdown, downloads, video, email_service, cleanups>>

\* The event loop and the executor; the state of the HTTP side of the service.
loopVars == <<tasks, executor, loop>>
\* The globals of main.py beside `processor`, and the download endpoint.
serviceVars == <<SQS_QUEUE_URL, s3_service, consumer_task, shutdown, downloads>>
\* The helpers that are called outside the pipeline actions.
utilVars == <<video, email_service, cleanups>>
otherVars == <<processor, http, loopVars, serviceVars, utilVars>>
\* Variables only the consumer loop and stop_sqs_consumer change.
ctlVars == <<is_consuming, receive_raised, stopped_early, otherVars>>

\* ------------------------------------------------------------- exceptions
\* An exception is a record [cls, msg]; str(e) is its message.
Exc(cls, msg) == [cls |-> cls, msg |-> msg]
Str(e) == e.msg

DownloadErrors == {Exc("OSError", "download failed")}
ExtractErrors == {Exc("ZeroDivisionError", "integer division or modulo by zero")}
ZipErrors == {Exc("OSError", "zip failed")}
DeleteErrors == {Exc("ClientError", "delete failed")}
ReceiveErrors == {Exc("ClientError", "receive failed")}
PostErrors == {Exc("ConnectionError", "notification service unreachable")}
JSONDecodeError == Exc("JSONDecodeError", "Expecting value")
NoFramesError == Exc("ValueError", "Nao foi possivel extrair frames do video")

\* Classes deriving from Exception (everything the calls above raise).
ExceptionSubclasses == {"ClientError", "OSError", "ValueError", "ZeroDivisionError",
                        "JSONDecodeError", "AttributeError", "ConnectionError",
                        "NameError", "HTTPException", "RequestError",
                        "ConnectError", "ReadTimeout"}

\* The `except Exception as e` clauses, one per try statement.
SEE_exceptNarrow(e) == e.cls = "ValueError"
SEE_except(e) == e.cls \in ExceptionSubclasses       \* _send_error_email
PVI_except(e) == e.cls \in ExceptionSubclasses       \* _process_video_internal
PVS3_exceptNarrow(e) == e.cls = "ClientError"
PVS3_except(e) == e.cls \in ExceptionSubclasses      \* process_video_from_s3
PM_except(e) == e.cls \in ExceptionSubclasses        \* process_message
CM_message_exceptNarrow(e) == e.cls = "ClientError"
CM_message_exceptParseOnly(e) == e.cls = "JSONDecodeError"
CM_message_except(e) == e.cls \in ExceptionSubclasses  \* consume_messages, per message
CM_exceptNarrow(e) == e.cls = "JSONDecodeError"
CM_except(e) == e.cls \in ExceptionSubclasses        \* consume_messages, outer

\* start_sqs_consumer: the sleep that follows consume_messages, in the try
\* body when it returned and in the except branch when it raised.
SleepAfter(raised) == IF raised THEN error_sleep ELSE poll_sleep

\* `while self.is_consuming`
LoopContinuesAlways(flag) == TRUE
LoopContinues(flag) == flag

\* ----------------------------------------------------------- pure helpers
\* Python truthiness of an optional string: `if not s3_key`, `if email`.
Truthy(v) == v # None /\ v # ""

\* json.loads(message['Body']) followed by body.get(...): the parsed object,
\* or the exception raised.
JsonLoads(raw) ==
    CASE raw.kind = "invalid" -> [ok |-> FALSE, exc |-> JSONDecodeError,
                                  body |-> [s3Key |-> None, email |-> None]]
      [] OTHER -> [ok |-> TRUE, exc |-> JSONDecodeError,
                   body |-> [s3Key |-> raw.s3Key, email |-> raw.email]]

\* generate_unique_id()
generate_unique_idFixed(n) == UuidPool[1]
generate_unique_id(n) == UuidPool[n]

\* message.get('title', 'Untitled'): the modelled messages carry no title,
\* and re.sub(r'[^\w\.-]', '_', 'Untitled') is 'Untitled'.
title_safe == "Untitled"

\* upload_dir / f"{generate_unique_id()}_{Path(s3_key).name}"
VideoPath(id, key) == "uploads/" \o id \o "_" \o PathName(key)
\* output_dir / f"temp_{video_id}"
TempDir(video_id) == "outputs/temp_" \o video_id
\* f"{video_id}_{title_safe}_frames.zip" and output_dir / zip_filename
ZipFilenameByTitle(video_id) == title_safe \o "_frames.zip"
ZipFilename(video_id) == video_id \o "_" \o title_safe \o "_frames.zip"
ZipPath(video_id) == "outputs/" \o ZipFilename(video_id)

\* The directories of the local filesystem (the temp_<id> directories of
\* the runs) and what a directory holds when frames were saved into it.
Directories == {TempDir(UuidPool[n]) : n \in 1..Len(UuidPool)}
Contents(path) ==
    IF path \in Directories THEN {path \o "/frame_000000.jpg"} ELSE {}

\* cleanup_temp_files(*paths): every given path that exists is removed, a
\* directory by shutil.rmtree (with what it holds), a file by os.remove.
cleanup_temp_filesKeepsContents(paths, f) == f \ paths
cleanup_temp_files(paths, f) ==
    f \ (paths \cup UNION {Contents(path) : path \in paths \cap f})

\* s3_client.head_object: the answer for a key, or an error raised
\* (transport, permission) when the call fails.
head_object(key, failing) ==
    IF failing THEN "error" ELSE IF key \in StoredKeys THEN "200" ELSE "404"

\* S3Service.video_exists: True iff head_object did not raise.
video_existsAlways(response) == TRUE
video_existsUnlessAbsent(response) == response # "404"
video_exists(response) == response = "200"

\* `if not frame_paths`
NoFramesNever(n) == FALSE
NoFrames(n) == n = 0

\* `if processed:` in consume_messages
ShouldDeleteAlways(processed) == TRUE
ShouldDeleteNever(processed) == FALSE
ShouldDelete(processed) == processed = "True"

\* `if not s3_key` in process_message
MissingKeyNoneOnly(s3_key) == s3_key = None
MissingKey(s3_key) == ~Truthy(s3_key)

\* ------------------------------------------------------------- results
NoResult == [video_id |-> None, status |-> None, error |-> None,
             frame_count |-> NoFrameCount, zip_filename |-> None]

NotFoundResult(key) ==
    [video_id |-> "not_found", status |-> FAILED,
     error |-> "Video nao encontrado no S3: " \o key,
     frame_count |-> NoFrameCount, zip_filename |-> None]

ErrorResult(e) ==
    [video_id |-> "error", status |-> FAILED, error |-> Str(e),
     frame_count |-> NoFrameCount, zip_filename |-> None]

InternalFailedResultKeepsZip(video_id, e) ==
    [video_id |-> video_id, status |-> FAILED, error |-> Str(e),
     frame_count |-> NoFrameCount, zip_filename |-> video_id \o "_frames.zip"]

InternalFailedResult(video_id, e) ==
    [video_id |-> video_id, status |-> FAILED, error |-> Str(e),
     frame_count |-> NoFrameCount, zip_filename |-> None]

CompletedResult(video_id, n) ==
    [video_id |-> video_id, status |-> COMPLETED, error |-> None,
     frame_count |-> n, zip_filename |-> ZipFilename(video_id)]

\* A process_message invocation: locals of process_message,
\* process_video_from_s3 and _process_video_internal.
NewRun(m, body) ==
    [msg |-> m.MessageId, handle |-> m.ReceiptHandle,
     s3_key |-> body.s3Key, email |-> body.email,
     uid |-> None,           \* generate_unique_id() of the download
     frames |-> -1,          \* len(frame_paths); -1 before extraction returns
     steps |-> <<>>,         \* pipeline steps performed so far, in order
     source |-> "sqs",       \* process_video_from_s3(source=...)
     faulted |-> None,       \* pipeline step at which an external call failed
     result |-> NoResult,    \* result of process_video_from_s3
     ret |-> "running"]      \* "True" / "False" once process_message returned

Cur == runs[Len(runs)]

\* ------------------------------------------------------ exception unwinding
\* Where an exception raised at a given depth of the call chain lands.  Each
\* landing gives the consumer's next position, the updated run log and
\* filesystem, and the functions the exception has propagated out of.
OuterLanding(e, R, F, E) ==
    \* consume_messages, outer try: log and return []; start_sqs_consumer
    \* then sleeps (in its except branch when the exception got out)
    [pc |-> "sleep", runs |-> R, fs |-> F, advance |-> FALSE, empty |-> TRUE,
     sleep |-> SleepAfter(~CM_except(e)),
     escaped |-> IF CM_except(e) THEN E ELSE E \cup {"consume_messages"}]

MessageLanding(e, R, F, E) ==
    \* consume_messages, per-message try: log, go on with the next message
    IF CM_message_except(e)
    THEN [pc |-> "for", runs |-> R, fs |-> F, advance |-> TRUE, empty |-> FALSE,
          sleep |-> 0, escaped |-> E]
    ELSE OuterLanding(e, R, F, E)

PMLanding(e, R, F, E) ==
    \* process_message: log and return False
    IF PM_except(e)
    THEN [pc |-> "after_pm", runs |-> [R EXCEPT ![Len(R)].ret = "False"], fs |-> F,
          advance |-> FALSE, empty |-> FALSE, sleep |-> 0, escaped |-> E]
    ELSE MessageLanding(e, [R EXCEPT ![Len(R)].ret = "raised"], F,
                        E \cup {"process_message"})

SEELanding(e, R, F, E) ==
    \* _send_error_email: log and return; process_message then returns False
    IF SEE_except(e)
    THEN [pc |-> "after_pm", runs |-> [R EXCEPT ![Len(R)].ret = "False"], fs |-> F,
          advance |-> FALSE, empty |-> FALSE, sleep |-> 0, escaped |-> E]
    ELSE PMLanding(e, R, F, E \cup {"_send_error_email"})

PVS3Landing(e, R, F, E) ==
    \* process_video_from_s3: return a Failed result carrying str(e)
    IF PVS3_except(e)
    THEN [pc |-> "pm_result", runs |-> [R EXCEPT ![Len(R)].result = ErrorResult(e)],
          fs |-> F, advance |-> FALSE, empty |-> FALSE, sleep |-> 0, escaped |-> E]
    ELSE PMLanding(e, R, F, E \cup {"process_video_from_s3"})

PVILanding(e, R, F, E) ==
    \* _process_video_internal: remove the local video if it exists, return a
    \* Failed result carrying str(e)
    LET r == R[Len(R)] IN
    IF PVI_except(e)
    THEN [pc |-> "pm_result",
          runs |-> [R EXCEPT ![Len(R)].result = InternalFailedResult(r.uid, e),
                             ![Len(R)].steps =
                                 IF VideoPath(r.uid, r.s3_key) \in F
                                 THEN Append(r.steps, "cleanup") ELSE r.steps],
          fs |-> cleanup_temp_files({VideoPath(r.uid, r.s3_key)}, F),
          advance |-> FALSE, empty |-> FALSE, sleep |-> 0, escaped |-> E]
    ELSE PVS3Landing(e, R, F, E \cup {"_process_video_internal"})

\* The consumer moves to landing L.
Goto(L) ==
    /\ pc' = L.pc
    /\ runs' = L.runs
    /\ fs' = L.fs
    /\ escaped' = L.escaped
    /\ i' = IF L.advance THEN i + 1 ELSE i
    /\ returned' = IF L.empty THEN <<>> ELSE returned
    /\ sleeping' = L.sleep

\* ------------------------------------------------------------------ Init
\* No extract_frames_from_video call in progress.
NoVideo ==
    [frames |-> 0, fps10 |-> 0, frames_per_second |-> 0, frame_interval |-> 0,
     frame_count |-> 0, saved_frames |-> <<>>, at |-> "idle"]

\* No EmailService constructed.
NoEmailService == [base_url |-> None, api_token |-> None, calls |-> <<>>]

\* The queue, the local directories and the logs before the first poll.
Fresh ==
    /\ NOTIFICATION_SERVICE_URL \in BOOLEAN
    /\ bodies \in [1..NumMsgs -> RawBodies]
    /\ queue = 1..NumMsgs
    /\ receives = 0
    /\ messages = <<>>
    /\ i = 1
    /\ processed_messages = <<>>
    /\ returned = <<>>
    /\ runs = <<>>
    /\ nextId = 1
    /\ storeCalls = <<>>
    /\ deleteCalls = <<>>
    /\ notifyCalls = <<>>
    /\ escaped = {}
    /\ faults = 0
    /\ is_consuming = FALSE
    /\ sleeping = 0
    /\ receive_raised = FALSE
    /\ collisions = {}
    /\ stopped_early = FALSE
    /\ delivery = [m \in 1..NumMsgs |->
                      [received |-> 0, invoked |-> 0, notified |-> 0,
                       archives |-> <<>>]]
    /\ http = <<>>
    /\ tasks = <<>>
    /\ executor = [running |-> {}, queue |-> <<>>]
    /\ loop = 0
    /\ shutdown = FALSE
    /\ downloads = <<>>

\* No helper of utils.py or email_service.py is called on its own.
NoUtilCalls ==
    /\ video = NoVideo
    /\ email_service = NoEmailService
    /\ cleanups = <<>>

\* A VideoProcessor constructed with the queue URL configured, its consumer
\* coroutine created and not yet started (processor); or a service that has
\* no processor.
Init ==
    /\ Fresh
    /\ NoUtilCalls
    /\ fs = {}
    /\ pc = "created"
    /\ processor \in BOOLEAN
    /\ SQS_QUEUE_URL = TRUE
    /\ s3_service = processor
    /\ consumer_task = processor

CanFail == faults < MaxFaults
Fault == faults' = faults + 1
NoFault == UNCHANGED faults

\* Batches receive_message may return.  The long poll (WaitTimeSeconds=20)
\* returns the messages on the queue, up to max_messages of them; message ids
\* are in batch order (the bodies at each position are arbitrary, see Init).
Min(a, b) == IF a <= b THEN a ELSE b
Batches(q) ==
    {b \in UNION {[1..n -> q] : n \in 0..Cardinality(q)} :
        /\ Len(b) = Min(Cardinality(q), max_messages)
        /\ \A j, k \in 1..Len(b) : j < k => b[j] < b[k]}

\* `for message in messages`: TRUE when no message is left.
LoopExhaustedAfterFirst(k, msgs) == k > Min(1, Len(msgs))
LoopExhausted(k, msgs) == k > Len(msgs)

\* The consumer task starts running start_sqs_consumer: it returns at once
\* without a queue URL, else is_consuming = True.
Start ==
    /\ pc = "created"
    /\ processor
    /\ IF SQS_QUEUE_URL
       THEN /\ is_consuming' = TRUE
            /\ pc' = "while"
       ELSE /\ pc' = "exit"
            /\ UNCHANGED is_consuming
    /\ UNCHANGED <<NOTIFICATION_SERVICE_URL, bodies, queue, receives, messages, i,
                   processed_messages, returned, runs, fs, nextId, storeCalls,
                   deleteCalls, notifyCalls, escaped, faults, sleeping,
                   receive_raised, collisions, stopped_early, delivery>>
    /\ UNCHANGED otherVars

\* Positions of the consumer outside the for loop of consume_messages.
OutsideBatch == {"created", "while", "poll", "sleep", "exit"}

\* stop_sqs_consumer, called from another task (shutdown_event) while the
\* consumer runs: is_consuming = False.  (A call that finds the flag already
\* cleared changes nothing.)
Stop ==
    /\ is_consuming
    /\ is_consuming' = FALSE
    /\ stopped_early' = (pc \notin OutsideBatch /\ i < Len(messages))
    /\ UNCHANGED <<NOTIFICATION_SERVICE_URL, bodies, queue, receives, messages, i,
                   processed_messages, returned, pc, runs, fs, nextId, storeCalls,
                   deleteCalls, notifyCalls, escaped, faults, sleeping,
                   receive_raised, collisions, delivery>>
    /\ UNCHANGED otherVars

\* `while self.is_consuming:` then the call of consume_messages.
LoopTest ==
    /\ pc = "while"
    /\ pc' = IF LoopContinues(is_consuming) THEN "poll" ELSE "exit"
    /\ UNCHANGED <<NOTIFICATION_SERVICE_URL, bodies, queue, receives, messages, i,
                   processed_messages, returned, runs, fs, nextId, storeCalls,
                   deleteCalls, notifyCalls, escaped, faults, sleeping, collisions>>
    /\ UNCHANGED <<ctlVars, delivery>>

\* asyncio.sleep(5) or asyncio.sleep(30) is over: back to the loop test.
Wake ==
    /\ pc = "sleep"
    /\ pc' = "while"
    /\ sleeping' = 0
    /\ UNCHANGED <<NOTIFICATION_SERVICE_URL, bodies, queue, receives, messages, i,
                   processed_messages, returned, runs, fs, nextId, storeCalls,
                   deleteCalls, notifyCalls, escaped, faults, collisions>>
    /\ UNCHANGED <<ctlVars, delivery>>

\* consume_messages up to the for loop: receive_message returns a batch or
\* raises (then the outer handler returns [] and start_sqs_consumer sleeps).
\* The call logs are those of the consume_messages call in progress.
Receive ==
    /\ pc = "poll"
    /\ receives < MaxPolls
    /\ receives' = receives + 1
    /\ processed_messages' = <<>>
    /\ storeCalls' = <<>>
    /\ deleteCalls' = <<>>
    /\ notifyCalls' = <<>>
    /\ runs' = <<>>
    /\ i' = 1
    /\ UNCHANGED <<NOTIFICATION_SERVICE_URL, bodies, queue, nextId, fs, collisions,
                   is_consuming, stopped_early>>
    /\ UNCHANGED otherVars
    /\ \/ /\ \E b \in Batches(queue) :
                /\ messages' = [k \in 1..Len(b) |->
                                   [MessageId |-> b[k], Body |-> bodies[b[k]],
                                    ReceiptHandle |-> <<b[k], receives + 1>>]]
                /\ delivery' = [m \in 1..NumMsgs |->
                                  IF \E k \in 1..Len(b) : b[k] = m
                                  THEN [delivery[m] EXCEPT !.received = @ + 1]
                                  ELSE delivery[m]]
          /\ receive_raised' = FALSE
          /\ pc' = "for"
          /\ returned' = <<>>
          /\ NoFault
          /\ UNCHANGED <<escaped, sleeping>>
       \/ /\ CanFail
          /\ Fault
          /\ messages' = <<>>
          /\ receive_raised' = TRUE
          /\ UNCHANGED delivery
          /\ \E e \in ReceiveErrors :
                LET L == OuterLanding(e, <<>>, fs, escaped) IN
                /\ pc' = L.pc
                /\ returned' = <<>>
                /\ escaped' = L.escaped
                /\ sleeping' = L.sleep

\* A for loop that starts process_message for the next message without
\* awaiting the one in flight.
NextMessageNoAwait ==
    /\ \/ pc = "for" /\ ~LoopExhausted(i, messages)
       \/ pc \in {"extracting", "zipping", "post"} /\ i < Len(messages)
    /\ LET k == IF pc = "for" THEN i ELSE i + 1
           m == messages[k]
           parsed == JsonLoads(m.Body)
       IN IF parsed.ok
          THEN /\ runs' = Append(runs, NewRun(m, parsed.body))
               /\ delivery' = [delivery EXCEPT ![m.MessageId].invoked = @ + 1]
               /\ pc' = "pm_entry"
               /\ i' = k
               /\ UNCHANGED <<returned, fs, escaped, sleeping>>
          ELSE /\ pc = "for"
               /\ Goto(MessageLanding(parsed.exc, runs, fs, escaped))
               /\ UNCHANGED delivery
    /\ UNCHANGED <<NOTIFICATION_SERVICE_URL, bodies, queue, receives, messages,
                   processed_messages, nextId, storeCalls, deleteCalls, notifyCalls,
                   faults, collisions>>
    /\ UNCHANGED ctlVars

\* for message in messages: json.loads, then the call of process_message.
NextMessage ==
    /\ pc = "for"
    /\ ~LoopExhausted(i, messages)
    /\ LET m == messages[i]
           parsed == JsonLoads(m.Body)
       IN IF parsed.ok
          THEN /\ runs' = Append(runs, NewRun(m, parsed.body))
               /\ delivery' = [delivery EXCEPT ![m.MessageId].invoked = @ + 1]
               /\ pc' = "pm_entry"
               /\ UNCHANGED <<i, returned, fs, escaped, sleeping>>
          ELSE /\ Goto(MessageLanding(parsed.exc, runs, fs, escaped))
               /\ UNCHANGED delivery
    /\ UNCHANGED <<NOTIFICATION_SERVICE_URL, bodies, queue, receives, messages,
                   processed_messages, nextId, storeCalls, deleteCalls, notifyCalls,
                   faults, collisions>>
    /\ UNCHANGED ctlVars

\* return processed_messages; start_sqs_consumer then sleeps.
ReturnBatch ==
    /\ pc = "for"
    /\ LoopExhausted(i, messages)
    /\ returned' = processed_messages
    /\ pc' = "sleep"
    /\ sleeping' = SleepAfter(FALSE)
    /\ UNCHANGED <<NOTIFICATION_SERVICE_URL, bodies, queue, receives, messages, i,
                   processed_messages, runs, fs, nextId, storeCalls, deleteCalls,
                   notifyCalls, escaped, faults, collisions>>
    /\ UNCHANGED <<ctlVars, delivery>>

\* process_message up to the call of process_video_from_s3.
Validate ==
    /\ pc = "pm_entry"
    /\ IF MissingKey(Cur.s3_key)
       THEN /\ runs' = [runs EXCEPT ![Len(runs)].ret = "False"]
            /\ pc' = "after_pm"
       ELSE /\ pc' = "exists"
            /\ UNCHANGED runs
    /\ UNCHANGED <<NOTIFICATION_SERVICE_URL, bodies, queue, receives, messages, i,
                   processed_messages, returned, fs, nextId, storeCalls, deleteCalls,
                   notifyCalls, escaped, faults, sleeping, collisions>>
    /\ UNCHANGED <<ctlVars, delivery>>

\* The run in flight has performed one more pipeline step.
Step(R, name) == [R EXCEPT ![Len(R)].steps = Append(@, name)]

\* process_video_from_s3: the existence check.
ExistenceCheck ==
    /\ pc = "exists"
    /\ \E failing \in BOOLEAN :
          /\ failing => CanFail
          /\ IF failing THEN Fault ELSE NoFault
          /\ storeCalls' = Append(storeCalls,
                                  [op |-> "head_object", key |-> Cur.s3_key,
                                   run |-> Len(runs),
                                   resp |-> head_object(Cur.s3_key, failing)])
          /\ IF video_exists(head_object(Cur.s3_key, failing))
             THEN /\ pc' = "download"
                  /\ runs' = Step(runs, "exists")
             ELSE /\ runs' = [Step(runs, "exists") EXCEPT
                                 ![Len(runs)].result = NotFoundResult(Cur.s3_key),
                                 ![Len(runs)].faulted =
                                     IF failing THEN "exists" ELSE None]
                  /\ pc' = "pm_result"
    /\ UNCHANGED <<NOTIFICATION_SERVICE_URL, bodies, queue, receives, messages, i,
                   processed_messages, returned, fs, nextId, deleteCalls, notifyCalls,
                   escaped, sleeping, collisions>>
    /\ UNCHANGED <<ctlVars, delivery>>

\* process_video_from_s3: the download, then _process_video_internal up to
\* the hand-off of the extraction to the worker pool.  A failed download
\* leaves no file at the local path.
Download ==
    /\ pc = "download"
    /\ nextId <= Len(UuidPool)
    /\ nextId' = nextId + 1
    /\ LET id == generate_unique_id(nextId)
           R == [Step(runs, "download") EXCEPT ![Len(runs)].uid = id]
           written == {VideoPath(id, Cur.s3_key), TempDir(id)}
           call(resp) == [op |-> "download_file", key |-> Cur.s3_key,
                          run |-> Len(runs), resp |-> resp]
       IN \/ /\ storeCalls' = Append(storeCalls, call("200"))
             /\ runs' = R
             /\ fs' = fs \cup written
             /\ collisions' = collisions \cup (written \cap fs)
             /\ pc' = "extracting"
             /\ NoFault
             /\ UNCHANGED <<i, returned, escaped, sleeping>>
          \/ /\ CanFail
             /\ Fault
             /\ storeCalls' = Append(storeCalls, call("error"))
             /\ UNCHANGED collisions
             /\ \E e \in DownloadErrors :
                   Goto(PVS3Landing(e, [R EXCEPT ![Len(R)].faulted = "download"],
                                    fs, escaped))
    /\ UNCHANGED <<NOTIFICATION_SERVICE_URL, bodies, queue, receives, messages,
                   processed_messages, deleteCalls, notifyCalls>>
    /\ UNCHANGED <<ctlVars, delivery>>

\* _process_video_internal: extract_frames_from_video returns from the worker
\* pool (or raises); with frames, the archive name is built and
\* create_zip_from_images is handed to the pool.
ExtractDone ==
    /\ pc = "extracting"
    /\ \/ /\ NoFault
          /\ LET n == FramesOf(Cur.s3_key)
                 R == [Step(runs, "extract") EXCEPT ![Len(runs)].frames = n]
             IN IF NoFrames(n)
                THEN Goto(PVILanding(NoFramesError, R, fs, escaped))
                ELSE /\ runs' = R
                     /\ pc' = "zipping"
                     /\ UNCHANGED <<i, returned, fs, escaped, sleeping>>
       \/ /\ CanFail
          /\ Fault
          /\ \E e \in ExtractErrors :
                Goto(PVILanding(e, [Step(runs, "extract") EXCEPT
                                       ![Len(runs)].faulted = "extract"],
                                fs, escaped))
    /\ UNCHANGED <<NOTIFICATION_SERVICE_URL, bodies, queue, receives, messages,
                   processed_messages, nextId, storeCalls, deleteCalls, notifyCalls,
                   collisions>>
    /\ UNCHANGED <<ctlVars, delivery>>

\* _process_video_internal: create_zip_from_images returns from the worker
\* pool; then cleanup_temp_files(video_path, temp_dir) and the Completed
\* result.  When it raises, the archive file may already have been opened.
\* The archives written for each queue message are kept in `delivery`.
ZipDone ==
    /\ pc = "zipping"
    /\ LET video_id == Cur.uid
           video_path == VideoPath(Cur.uid, Cur.s3_key)
           temp_dir == TempDir(video_id)
           zip_path == ZipPath(video_id)
           R == Step(runs, "package")
       IN \/ /\ NoFault
             /\ fs' = cleanup_temp_files({video_path, temp_dir}, fs \cup {zip_path})
             /\ collisions' = collisions \cup ({zip_path} \cap fs)
             /\ runs' = [Step(R, "cleanup") EXCEPT ![Len(runs)].result =
                                               CompletedResult(video_id, Cur.frames)]
             /\ pc' = "pm_result"
             /\ delivery' = IF Cur.source = "sqs"
                            THEN [delivery EXCEPT ![Cur.msg].archives =
                                                    Append(@, zip_path)]
                            ELSE delivery
             /\ UNCHANGED <<i, returned, escaped, sleeping>>
          \/ /\ CanFail
             /\ Fault
             /\ \E e \in ZipErrors, opened \in BOOLEAN :
                   /\ Goto(PVILanding(e, [R EXCEPT ![Len(R)].faulted = "package"],
                                      IF opened THEN fs \cup {zip_path} ELSE fs,
                                      escaped))
                   /\ collisions' = IF opened THEN collisions \cup ({zip_path} \cap fs)
                                    ELSE collisions
             /\ UNCHANGED delivery
    /\ UNCHANGED <<NOTIFICATION_SERVICE_URL, bodies, queue, receives, messages,
                   processed_messages, nextId, storeCalls, deleteCalls, notifyCalls>>
    /\ UNCHANGED ctlVars

\* process_message after process_video_from_s3 returned: True on Completed;
\* otherwise _send_error_email is handed to the worker pool and awaited when
\* the message carries an email, and False is returned.
Result ==
    /\ pc = "pm_result"
    /\ Cur.source = "sqs"
    /\ IF Cur.result.status = COMPLETED
       THEN /\ runs' = [runs EXCEPT ![Len(runs)].ret = "True"]
            /\ pc' = "after_pm"
       ELSE IF Truthy(Cur.email)
            THEN /\ pc' = "send_error_email"
                 /\ UNCHANGED runs
            ELSE /\ runs' = [runs EXCEPT ![Len(runs)].ret = "False"]
                 /\ pc' = "after_pm"
    /\ UNCHANGED <<NOTIFICATION_SERVICE_URL, bodies, queue, receives, messages, i,
                   processed_messages, returned, fs, nextId, storeCalls, deleteCalls,
                   notifyCalls, escaped, faults, sleeping, collisions>>
    /\ UNCHANGED <<ctlVars, delivery>>

\* _send_error_email on the worker pool, up to requests.post: returns at once
\* without a URL, else issues the POST.
SendErrorEmail ==
    /\ pc = "send_error_email"
    /\ IF ~Truthy(Cur.email) \/ ~NOTIFICATION_SERVICE_URL
       THEN /\ runs' = [runs EXCEPT ![Len(runs)].ret = "False"]
            /\ pc' = "after_pm"
            /\ UNCHANGED <<notifyCalls, delivery>>
       ELSE /\ delivery' = [delivery EXCEPT ![Cur.msg].notified = @ + 1]
            /\ notifyCalls' = Append(notifyCalls,
                                     [to |-> Cur.email, kind |-> "error",
                                      error |-> Cur.result.error, run |-> Len(runs),
                                      outcome |-> "pending"])
            /\ pc' = "post"
            /\ runs' = Step(runs, "notify")
    /\ UNCHANGED <<NOTIFICATION_SERVICE_URL, bodies, queue, receives, messages, i,
                   processed_messages, returned, fs, nextId, storeCalls, deleteCalls,
                   escaped, faults, sleeping, collisions>>
    /\ UNCHANGED ctlVars

\* requests.post(..., timeout=5) answers 200, answers another status, or
\* raises (transport error, timeout); _send_error_email logs and returns, the
\* awaiting process_message resumes and returns False.
PostFailures == {"500", "exception"}

PostDone ==
    /\ pc = "post"
    /\ \/ /\ NoFault
          /\ notifyCalls' = [notifyCalls EXCEPT ![Len(notifyCalls)].outcome = "200"]
          /\ runs' = [runs EXCEPT ![Len(runs)].ret = "False"]
          /\ pc' = "after_pm"
          /\ UNCHANGED <<i, returned, fs, escaped, sleeping>>
       \/ /\ CanFail
          /\ Fault
          /\ \E o \in PostFailures :
                /\ notifyCalls' = [notifyCalls EXCEPT ![Len(notifyCalls)].outcome = o]
                /\ IF o = "exception"
                   THEN \E e \in PostErrors : Goto(SEELanding(e, runs, fs, escaped))
                   ELSE /\ runs' = [runs EXCEPT ![Len(runs)].ret = "False"]
                        /\ pc' = "after_pm"
                        /\ UNCHANGED <<i, returned, fs, escaped, sleeping>>
    /\ UNCHANGED <<NOTIFICATION_SERVICE_URL, bodies, queue, receives, messages,
                   processed_messages, nextId, storeCalls, deleteCalls, collisions>>
    /\ UNCHANGED <<ctlVars, delivery>>

\* {'message': body, 'processed': processed}
EntryAlwaysTrue(body, processed) == [message |-> body, processed |-> "True"]
Entry(body, processed) == [message |-> body, processed |-> processed]

\* consume_messages after process_message returned: delete_message when it
\* returned True, then the entry appended to processed_messages.
Ack ==
    /\ pc = "after_pm"
    /\ LET m == messages[i]
           entry == Entry([s3Key |-> Cur.s3_key, email |-> Cur.email], Cur.ret)
       IN IF ShouldDelete(Cur.ret)
          THEN /\ deleteCalls' = Append(deleteCalls, m.ReceiptHandle)
               /\ \/ /\ NoFault
                     /\ queue' = queue \ {m.MessageId}
                     /\ processed_messages' = Append(processed_messages, entry)
                     /\ i' = i + 1
                     /\ pc' = "for"
                     /\ UNCHANGED <<returned, runs, fs, escaped, sleeping>>
                  \/ /\ CanFail
                     /\ Fault
                     /\ \E e \in DeleteErrors :
                           Goto(MessageLanding(e, runs, fs, escaped))
                     /\ UNCHANGED <<queue, processed_messages>>
          ELSE /\ processed_messages' = Append(processed_messages, entry)
               /\ i' = i + 1
               /\ pc' = "for"
               /\ NoFault
               /\ UNCHANGED <<queue, deleteCalls, returned, runs, fs, escaped,
                              sleeping>>
    /\ UNCHANGED <<NOTIFICATION_SERVICE_URL, bodies, receives, messages, nextId,
                   storeCalls, notifyCalls, collisions>>
    /\ UNCHANGED <<ctlVars, delivery>>

Next ==
    \/ Start
    \/ LoopTest
    \/ Wake
    \/ Receive
    \/ NextMessage
    \/ ReturnBatch
    \/ Validate
    \/ ExistenceCheck
    \/ Download
    \/ ExtractDone
    \/ ZipDone
    \/ Result
    \/ SendErrorEmail
    \/ PostDone
    \/ Ack

Spec == Init /\ [][Next]_vars

\* The consumer on queues of the messages that reach each exit of a delivery:
\* unparsable, without key, Completed, without frames, source absent (the
\* last three with the notification of a failure, or without an email).
BatchBodies ==
    {[kind |-> "invalid", s3Key |-> None, email |-> None],
     Object(None, "user@example.com"),
     Object("videos/a.mp4", "user@example.com"),
     Object("videos/empty.mp4", None),
     Object("videos/missing.mp4", "user@example.com")}

InitBatches ==
    /\ Init
    /\ \A m \in 1..NumMsgs : bodies[m] \in BatchBodies

SpecBatches == InitBatches /\ [][Next]_vars

\* The consumer with stop_sqs_consumer called at an arbitrary moment.
NextStop ==
    \/ Next
    \/ Stop

SpecStop == InitBatches /\ [][NextStop]_vars

\* ------------------------------------------------------- manual trigger
\* Keys a manual request may name (the path parameter may be empty).
ManualKeys == {"", "videos/a.mp4", "videos/missing.mp4"}

\* The messages on the queue of the service with its HTTP endpoint: work
\* items for the keys a manual request may name.
ManualBodies ==
    {Object("", None),
     Object("videos/a.mp4", None),
     Object("videos/missing.mp4", "user@example.com")}

\* `if not processor: raise HTTPException(500)`
AcceptsAlways(p) == TRUE
Accepts(p) == p

\* The response of process_s3_video: 202 with status "processing" once the
\* background task is added; 500 when the processor is not initialised.
Accepted(key) ==
    [s3_key |-> key, status_code |-> 202, status |-> "processing",
     task |-> "scheduled"]
Rejected(key) ==
    [s3_key |-> key, status_code |-> 500, status |-> None, task |-> "none"]

\* Requests are served while the consumer coroutine is suspended in its
\* sleep, and by the service whose startup failed (no consumer task).
ConsumerSuspended ==
    \/ pc = "created" /\ ~processor
    \/ pc = "idle"
    \/ pc = "sleep"

\* The locals of process_async: a process_video_from_s3 call with
\* source="manual_api"; no message, no email.
ManualRun(key) ==
    [msg |-> 0, handle |-> None,
     s3_key |-> key, email |-> None,
     uid |-> None, frames |-> -1, steps |-> <<>>,
     source |-> "manual_api", faulted |-> None,
     result |-> NoResult, ret |-> "running"]

\* process_async calls process_video_from_s3, whose first step is the
\* existence check.
ManualEntrySkipsCheck == "download"
ManualEntry == "exists"

\* process_s3_video, the whole handler: it adds process_async to the
\* background tasks and returns the response.
HttpRequest ==
    /\ ConsumerSuspended
    /\ Len(http) < MaxRequests
    /\ \E key \in ManualKeys :
          http' = Append(http, IF Accepts(processor) THEN Accepted(key)
                               ELSE Rejected(key))
    /\ UNCHANGED <<NOTIFICATION_SERVICE_URL, bodies, queue, receives, messages, i,
                   processed_messages, returned, pc, runs, fs, nextId, storeCalls,
                   deleteCalls, notifyCalls, escaped, faults, is_consuming,
                   sleeping, receive_raised, collisions, stopped_early, delivery,
                   processor, loopVars, serviceVars, utilVars>>

\* The background task starts after the response was returned: process_async
\* calls process_video_from_s3.
BackgroundStart ==
    /\ pc = "sleep"
    /\ \E k \in 1..Len(http) :
          /\ http[k].task = "scheduled"
          /\ http' = [http EXCEPT ![k].task = "running"]
          /\ runs' = Append(runs, ManualRun(http[k].s3_key))
    /\ pc' = ManualEntry
    /\ UNCHANGED <<NOTIFICATION_SERVICE_URL, bodies, queue, receives, messages, i,
                   processed_messages, returned, fs, nextId, storeCalls,
                   deleteCalls, notifyCalls, escaped, faults, is_consuming,
                   sleeping, receive_raised, collisions, stopped_early, delivery,
                   processor, loopVars, serviceVars, utilVars>>

\* process_async after process_video_from_s3 returned: it logs the result and
\* ends; the consumer is still in its sleep.
ManualDone ==
    /\ pc = "pm_result"
    /\ Cur.source = "manual_api"
    /\ runs' = [runs EXCEPT ![Len(runs)].ret = "logged"]
    /\ http' = [k \in 1..Len(http) |->
                   IF http[k].task = "running"
                   THEN [http[k] EXCEPT !.task = "done"] ELSE http[k]]
    /\ pc' = "sleep"
    /\ UNCHANGED <<NOTIFICATION_SERVICE_URL, bodies, queue, receives, messages, i,
                   processed_messages, returned, fs, nextId, storeCalls,
                   deleteCalls, notifyCalls, escaped, faults, is_consuming,
                   sleeping, receive_raised, collisions, stopped_early, delivery,
                   processor, loopVars, serviceVars, utilVars>>

\* The service with its HTTP endpoint: the consumer up to its first sleep,
\* and the requests served during that sleep.
InitManual ==
    /\ Init
    /\ \A m \in 1..NumMsgs : bodies[m] \in ManualBodies

NextManual ==
    \/ Start
    \/ LoopTest
    \/ Receive
    \/ NextMessage
    \/ ReturnBatch
    \/ Validate
    \/ ExistenceCheck
    \/ Download
    \/ ExtractDone
    \/ ZipDone
    \/ Result
    \/ SendErrorEmail
    \/ PostDone
    \/ Ack
    \/ HttpRequest
    \/ BackgroundStart
    \/ ManualDone

SpecManual == InitManual /\ [][NextManual]_vars

\* ------------------------------------------------ event loop, worker pool
\* The coroutines of the service on the one event loop, and the calls each
\* makes: awaited calls suspend the coroutine and free the loop, plain calls
\* keep the loop until they return.
pipelineVars == <<NOTIFICATION_SERVICE_URL, bodies, queue, receives, messages, i,
                  processed_messages, returned, pc, runs, fs, nextId, storeCalls,
                  deleteCalls, notifyCalls, escaped, faults, is_consuming,
                  sleeping, receive_raised, collisions, stopped_early, delivery,
                  processor, http, serviceVars, utilVars>>

\* ThreadPoolExecutor: a work item starts when fewer than max_workers threads
\* are busy.
PoolHasFreeWorkerAlways(running) == TRUE
PoolHasFreeWorker(running) == Cardinality(running) < max_workers

\* The functions handed to the executor.
PoolSteps == {"extract_frames_from_video", "create_zip_from_images",
              "_send_error_email"}

\* loop.run_in_executor(self.executor, fn, ...): the work item starts on a
\* free thread of the executor, or joins its queue when all are busy.
run_in_executor(E, t, fn) ==
    LET item == [task |-> t, fn |-> fn] IN
    IF PoolHasFreeWorker(E.running)
    THEN [E EXCEPT !.running = @ \cup {item}]
    ELSE [E EXCEPT !.queue = Append(@, item)]

\* A coroutine is created: the consumer task at startup, then one background
\* task per manual request.  The consumer awaits receive_message; a manual
\* run begins with the existence check, a plain call of the boto3 client.
NewTask(kind, key, at) ==
    [kind |-> kind, s3_key |-> key, email |-> None, pc |-> at, future |-> "none"]

TaskStart ==
    /\ loop = 0
    /\ Len(tasks) < MaxRuns
    /\ IF tasks = <<>>
       THEN /\ tasks' = <<NewTask("consumer", None, "receive_message")>>
            /\ UNCHANGED loop
       ELSE /\ tasks' = Append(tasks, NewTask("manual", "videos/a.mp4",
                                              "video_exists"))
            /\ loop' = Len(tasks) + 1
    /\ UNCHANGED <<executor, pipelineVars>>

\* `await sqs.receive_message(...)` completes with one message and the
\* consumer goes on, up to the existence check of process_video_from_s3.
ReceiveReturns(t) ==
    /\ t \in 1..Len(tasks)
    /\ loop = 0
    /\ tasks[t].pc = "receive_message"
    /\ \E body \in {Object("videos/a.mp4", None),
                    Object("videos/missing.mp4", "user@example.com")} :
          tasks' = [tasks EXCEPT ![t].pc = "video_exists",
                                 ![t].s3_key = body.s3Key,
                                 ![t].email = body.email]
    /\ loop' = t
    /\ UNCHANGED <<executor, pipelineVars>>

\* self.s3_service.video_exists(s3_key) returns (head_object of the boto3
\* client, called in the coroutine).  Present: download_video is called the
\* same way.  Absent: the Failed result; process_message hands
\* _send_error_email to the executor when the message has an email.
VideoExistsReturns(t) ==
    /\ t \in 1..Len(tasks)
    /\ loop = t
    /\ tasks[t].pc = "video_exists"
    /\ IF tasks[t].s3_key \in StoredKeys
       THEN /\ tasks' = [tasks EXCEPT ![t].pc = "download_video"]
            /\ UNCHANGED <<loop, executor>>
       ELSE IF tasks[t].kind = "consumer" /\ Truthy(tasks[t].email)
            THEN /\ tasks' = [tasks EXCEPT ![t].pc = "_send_error_email",
                                           ![t].future = "pending"]
                 /\ executor' = run_in_executor(executor, t, "_send_error_email")
                 /\ loop' = 0
            ELSE /\ tasks' = [tasks EXCEPT ![t].pc = "done"]
                 /\ loop' = 0
                 /\ UNCHANGED executor
    /\ UNCHANGED pipelineVars

\* self.s3_service.download_video(...) returns (download_file of the boto3
\* client, called in the coroutine); _process_video_internal hands
\* extract_frames_from_video to the executor and awaits it.
DownloadVideoReturns(t) ==
    /\ t \in 1..Len(tasks)
    /\ loop = t
    /\ tasks[t].pc = "download_video"
    /\ tasks' = [tasks EXCEPT ![t].pc = "extract_frames_from_video",
                              ![t].future = "pending"]
    /\ executor' = run_in_executor(executor, t, "extract_frames_from_video")
    /\ loop' = 0
    /\ UNCHANGED pipelineVars

\* A thread of the executor finishes its work item: the future is done, and
\* the thread takes the next item of the queue.
WorkerFinishes(w) ==
    /\ w \in executor.running
    /\ executor' = IF executor.queue = <<>>
                   THEN [executor EXCEPT !.running = @ \ {w}]
                   ELSE [running |-> (executor.running \ {w})
                                        \cup {Head(executor.queue)},
                         queue |-> Tail(executor.queue)]
    /\ tasks' = [tasks EXCEPT ![w.task].future = "done"]
    /\ UNCHANGED <<loop, pipelineVars>>

\* The coroutine awaiting a finished future resumes: after the extraction
\* create_zip_from_images is handed to the executor; after the packaging the
\* run returns, and the consumer awaits delete_message; after
\* _send_error_email process_message returns.
Resume(t) ==
    /\ t \in 1..Len(tasks)
    /\ loop = 0
    /\ tasks[t].future = "done"
    /\ CASE tasks[t].pc = "extract_frames_from_video" ->
               /\ tasks' = [tasks EXCEPT ![t].pc = "create_zip_from_images",
                                         ![t].future = "pending"]
               /\ executor' = run_in_executor(executor, t, "create_zip_from_images")
         [] tasks[t].pc = "create_zip_from_images" ->
               /\ tasks' = [tasks EXCEPT
                               ![t].pc = IF tasks[t].kind = "consumer"
                                         THEN "delete_message" ELSE "done",
                               ![t].future = "none"]
               /\ UNCHANGED executor
         [] OTHER ->
               /\ tasks' = [tasks EXCEPT ![t].pc = "done", ![t].future = "none"]
               /\ UNCHANGED executor
    /\ UNCHANGED <<loop, pipelineVars>>

\* `await sqs.delete_message(...)` completes.
DeleteReturns(t) ==
    /\ t \in 1..Len(tasks)
    /\ loop = 0
    /\ tasks[t].pc = "delete_message"
    /\ tasks' = [tasks EXCEPT ![t].pc = "done"]
    /\ UNCHANGED <<executor, loop, pipelineVars>>

InitLoop ==
    /\ Init
    /\ processor
    /\ NOTIFICATION_SERVICE_URL
    /\ \A m \in 1..NumMsgs : bodies[m] = Object("videos/a.mp4", None)

NextLoop ==
    \/ TaskStart
    \/ \E t \in 1..MaxRuns : ReceiveReturns(t)
    \/ \E t \in 1..MaxRuns : VideoExistsReturns(t)
    \/ \E t \in 1..MaxRuns : DownloadVideoReturns(t)
    \/ \E t \in 1..MaxRuns, fn \in PoolSteps :
          WorkerFinishes([task |-> t, fn |-> fn])
    \/ \E t \in 1..MaxRuns : Resume(t)
    \/ \E t \in 1..MaxRuns : DeleteReturns(t)

SpecLoop == InitLoop /\ [][NextLoop]_vars

\* ------------------------------------------------------- fair consumer
\* The running consumer under fair scheduling: the event loop runs the one
\* consumer coroutine whenever it can take a step, every awaited call ends
\* (by returning or by raising), and external calls fail MaxFaults times at
\* most, after which they succeed.
LiveBodies ==
    {[kind |-> "invalid", s3Key |-> None, email |-> None],
     Object("videos/a.mp4", "user@example.com"),
     Object("videos/missing.mp4", "user@example.com")}

InitLive ==
    /\ Init
    /\ processor
    /\ \A m \in 1..NumMsgs : bodies[m] \in LiveBodies

SpecLive == InitLive /\ [][Next]_vars /\ WF_vars(Next)

\* ------------------------------------------------ service start and stop
\* print_config: its notification line formats the global
\* NOTIFICATION_SERVICE_URL, a name app/config.py never binds, so the call
\* raises NameError.
print_config ==
    [raises |-> TRUE,
     e |-> Exc("NameError", "name 'NOTIFICATION_SERVICE_URL' is not defined")]

\* The `except Exception as e` clause of startup_event.
Startup_except(e) == e.cls \in ExceptionSubclasses

\* The module globals of main.py before startup_event runs.
InitService ==
    /\ Fresh
    /\ NoUtilCalls
    /\ fs = {}
    /\ pc = "boot"
    /\ processor = FALSE
    /\ SQS_QUEUE_URL \in BOOLEAN
    /\ s3_service = FALSE
    /\ consumer_task = FALSE

\* startup_event, the whole handler: print_config, then the S3 service and
\* the processor, then the consumer task when the queue URL is set; an
\* exception raised anywhere in the try body is logged and the handler
\* returns.
Startup ==
    /\ pc = "boot"
    /\ IF print_config.raises /\ Startup_except(print_config.e)
       THEN /\ pc' = "idle"
            /\ UNCHANGED <<processor, s3_service, consumer_task>>
       ELSE /\ s3_service' = TRUE
            /\ processor' = TRUE
            /\ consumer_task' = SQS_QUEUE_URL
            /\ pc' = IF SQS_QUEUE_URL THEN "created" ELSE "idle"
    /\ UNCHANGED <<NOTIFICATION_SERVICE_URL, bodies, queue, receives, messages, i,
                   processed_messages, returned, runs, fs, nextId, storeCalls,
                   deleteCalls, notifyCalls, escaped, faults, is_consuming,
                   sleeping, receive_raised, collisions, stopped_early, delivery,
                   http, loopVars, SQS_QUEUE_URL, shutdown, downloads, utilVars>>

\* shutdown_event, the whole handler: stop_sqs_consumer when a processor
\* exists.  It runs once, at any moment after the startup.
Shutdown ==
    /\ pc # "boot"
    /\ ~shutdown
    /\ shutdown' = TRUE
    /\ is_consuming' = IF processor THEN FALSE ELSE is_consuming
    /\ stopped_early' = IF processor
                        THEN (pc \notin OutsideBatch /\ i < Len(messages))
                        ELSE stopped_early
    /\ UNCHANGED <<NOTIFICATION_SERVICE_URL, bodies, queue, receives, messages, i,
                   processed_messages, returned, pc, runs, fs, nextId, storeCalls,
                   deleteCalls, notifyCalls, escaped, faults, sleeping,
                   receive_raised, collisions, delivery, processor, http,
                   loopVars, SQS_QUEUE_URL, s3_service, consumer_task, downloads,
                   utilVars>>

\* ------------------------------------------------------ download endpoint
\* File names a GET /download/{filename} request carries: the archive of the
\* first run, and a name no run produces.
DownloadNames == {ZipFilename(UuidPool[1]), "nonexistent.zip"}

\* processor.get_processed_files(): the names of the *.zip files of the
\* output directory.
get_processed_files(f) ==
    {ZipFilename(UuidPool[n]) : n \in {k \in 1..Len(UuidPool) :
                                          ZipPath(UuidPool[k]) \in f}}

\* fastapi.HTTPException(status_code, detail); str(e) is
\* "<status_code>: <detail>".
HTTPException(status_code, message, files) ==
    [cls |-> "HTTPException", status_code |-> status_code,
     message |-> message, available_files |-> files]
StatusText(status_code) == IF status_code = 404 THEN "404" ELSE "500"
HTTPExceptionStr(e) ==
    [e EXCEPT !.message = StatusText(e.status_code) \o ": " \o e.message]

\* The `except Exception as e` clause of download_zip: HTTPException derives
\* from Exception.
DZ_except(e) == e.cls \in ExceptionSubclasses

\* The try body of download_zip: what it raises, or the FileResponse.
download_zip_body(filename, proc, f) ==
    IF ~proc
    THEN HTTPException(500, "Processor nao inicializado", {})
    ELSE IF ("outputs/" \o filename) \notin f
         THEN HTTPException(404, "Arquivo nao encontrado: " \o filename,
                            get_processed_files(f))
         ELSE [cls |-> "FileResponse", status_code |-> 200,
               message |-> filename, available_files |-> {}]

\* download_zip, the whole handler: an exception of the try body that the
\* except clause catches is answered as HTTPException(500, detail=str(e)).
download_zip(filename, proc, f) ==
    LET r == download_zip_body(filename, proc, f)
        answer == IF r.cls # "FileResponse" /\ DZ_except(r)
                  THEN LET d == HTTPExceptionStr(r)
                       IN HTTPException(500, d.message, d.available_files)
                  ELSE r
    IN [filename |-> filename,
        initialised |-> proc,
        exists |-> ("outputs/" \o filename) \in f,
        status_code |-> answer.status_code,
        detail |-> [message |-> answer.message,
                    available_files |-> answer.available_files]]

\* A GET /download/{filename} request served while the consumer is
\* suspended.
DownloadZip ==
    /\ ConsumerSuspended
    /\ Len(downloads) < MaxRequests
    /\ \E filename \in DownloadNames :
          downloads' = Append(downloads, download_zip(filename, processor, fs))
    /\ UNCHANGED <<NOTIFICATION_SERVICE_URL, bodies, queue, receives, messages, i,
                   processed_messages, returned, pc, runs, fs, nextId, storeCalls,
                   deleteCalls, notifyCalls, escaped, faults, is_consuming,
                   sleeping, receive_raised, collisions, stopped_early, delivery,
                   processor, http, loopVars, SQS_QUEUE_URL, s3_service,
                   consumer_task, shutdown, utilVars>>

\* The service from its start: the startup, the requests, the shutdown.
NextService ==
    \/ Startup
    \/ Shutdown
    \/ HttpRequest
    \/ DownloadZip

SpecService == InitService /\ [][NextService]_vars

\* The consumer with shutdown_event run at an arbitrary moment after the
\* consumer task was created.
NextShutdown ==
    \/ Next
    \/ Shutdown

SpecShutdown == InitBatches /\ [][NextShutdown]_vars

\* The service with both HTTP endpoints.
NextDownload ==
    \/ NextManual
    \/ DownloadZip

SpecDownload == InitManual /\ [][NextDownload]_vars

\* -------------------------------------------- helpers called on their own
\* A service without processor: nothing of the consumer moves while a helper
\* of utils.py or email_service.py is exercised.
Idle ==
    /\ Fresh
    /\ NOTIFICATION_SERVICE_URL
    /\ \A m \in 1..NumMsgs : bodies[m] = Object("videos/a.mp4", None)
    /\ pc = "idle"
    /\ processor = FALSE
    /\ SQS_QUEUE_URL = FALSE
    /\ s3_service = FALSE
    /\ consumer_task = FALSE

\* Everything but the local files and the helpers' own state.
serviceSide == <<NOTIFICATION_SERVICE_URL, bodies, queue, receives, messages, i,
                 processed_messages, returned, pc, runs, nextId, storeCalls,
                 deleteCalls, notifyCalls, escaped, faults, is_consuming,
                 sleeping, receive_raised, collisions, stopped_early, delivery,
                 processor, http, loopVars, serviceVars>>

\* extract_frames_from_video.  A video is its number of readable frames and
\* the rate cv2.CAP_PROP_FPS reports, in tenths of a frame per second (0 for
\* a file OpenCV cannot open); frames_per_second is the sampling rate asked.
FpsTenths == {0, 5, 10, 15, 20, 25, 30}

VideoInputs ==
    {[frames |-> n, fps10 |-> f, frames_per_second |-> r, frame_interval |-> 0,
      frame_count |-> 0, saved_frames |-> <<>>, at |-> "called"] :
        n \in 0..MaxFrames, f \in FpsTenths, r \in 1..MaxRate}

\* int(fps / frames_per_second)
FrameInterval(fps10, r) == fps10 \div (10 * r)

InitExtract ==
    /\ Idle
    /\ fs = {}
    /\ email_service = NoEmailService
    /\ cleanups = <<>>
    /\ video \in VideoInputs

\* Up to the loop: the capture is opened, the interval computed.
OpenVideo ==
    /\ video.at = "called"
    /\ video' = [video EXCEPT
                    !.frame_interval = FrameInterval(video.fps10,
                                                     video.frames_per_second),
                    !.at = "reading"]
    /\ UNCHANGED <<serviceSide, fs, email_service, cleanups>>

\* One iteration of `while True`: video.read() fails after the last frame
\* and the list is returned; else the frame is saved as frame_<frame_count>
\* when frame_count % frame_interval == 0 (ZeroDivisionError when the
\* interval is 0), and frame_count is incremented.
ReadFrame ==
    /\ video.at = "reading"
    /\ video' =
          IF video.frame_count >= video.frames
          THEN [video EXCEPT !.at = "returned"]
          ELSE IF video.frame_interval = 0
               THEN [video EXCEPT !.at = "raised"]
               ELSE [video EXCEPT
                        !.saved_frames =
                            IF video.frame_count % video.frame_interval = 0
                            THEN Append(@, video.frame_count) ELSE @,
                        !.frame_count = @ + 1]
    /\ UNCHANGED <<serviceSide, fs, email_service, cleanups>>

NextExtract ==
    \/ OpenVideo
    \/ ReadFrame

SpecExtract == InitExtract /\ [][NextExtract]_vars

\* cleanup_temp_files on a local directory tree: a video file, a temp
\* directory and a frame saved in it, each present or not (a frame only in
\* a directory that exists).
CleanupTree ==
    LET temp_dir == TempDir(UuidPool[1]) IN
    {VideoPath(UuidPool[1], "videos/a.mp4"), temp_dir} \cup Contents(temp_dir)

Trees ==
    {f \in SUBSET CleanupTree :
        \A d \in Directories : Contents(d) \cap f # {} => d \in f}

InitCleanup ==
    /\ Idle
    /\ fs \in Trees
    /\ video = NoVideo
    /\ email_service = NoEmailService
    /\ cleanups = <<>>

\* A call cleanup_temp_files(*paths).
Cleanup ==
    /\ Len(cleanups) < MaxCleanups
    /\ \E paths \in SUBSET CleanupTree :
          /\ fs' = cleanup_temp_files(paths, fs)
          /\ cleanups' = Append(cleanups, [paths |-> paths, before |-> fs,
                                           after |-> fs'])
    /\ UNCHANGED <<serviceSide, video, email_service>>

SpecCleanup == InitCleanup /\ [][Cleanup]_vars

\* EmailService: NOTIFICATION_SERVICE_URL and API_SECURITY_INTERNAL_TOKEN as
\* read from the environment (unset, empty or set).
EmailConfigs ==
    {[base_url |-> b, api_token |-> t, calls |-> <<>>] :
        b \in {None, "", "http://notification/"}, t \in {None, "", "token"}}

\* What client.post does: a response with a status code, or an exception
\* (httpx.ConnectError and httpx.ReadTimeout derive from httpx.RequestError).
NoExc == Exc(None, "")
HttpOutcomes ==
    {[status_code |-> c, e |-> NoExc] : c \in {200, 201, 202, 204, 400, 404, 500}}
       \cup {[status_code |-> 0, e |-> Exc(cls, "post failed")] :
                cls \in {"ConnectError", "ReadTimeout", "ValueError"}}

RequestErrorSubclasses == {"RequestError", "ConnectError", "ReadTimeout"}

\* `except httpx.RequestError as e` and `except Exception as e`
SN_exceptRequestError(e) == e.cls \in RequestErrorSubclasses
SN_except(e) == e.cls \in ExceptionSubclasses

\* `if response.status_code in [200, 201, 204]`
SuccessStatusAny2xx(status_code) == status_code \in 200..299
SuccessStatus(status_code) == status_code \in {200, 201, 204}

\* EmailService._send_notification: the number of POSTs issued, the status
\* received, the exception met and the value returned.
send_notification(base_url, api_token, outcome) ==
    IF ~Truthy(base_url) \/ ~Truthy(api_token)
    THEN [attempts |-> 0, status_code |-> 0, error |-> None, ret |-> "False"]
    ELSE IF outcome.e = NoExc
         THEN [attempts |-> 1, status_code |-> outcome.status_code,
               error |-> None,
               ret |-> IF SuccessStatus(outcome.status_code)
                       THEN "True" ELSE "False"]
         ELSE [attempts |-> 1, status_code |-> 0, error |-> outcome.e.cls,
               ret |-> IF SN_exceptRequestError(outcome.e) \/ SN_except(outcome.e)
                       THEN "False" ELSE "raised"]

InitEmail ==
    /\ Idle
    /\ fs = {}
    /\ video = NoVideo
    /\ cleanups = <<>>
    /\ email_service \in EmailConfigs

\* send_process_start, send_process_completion or send_process_error: each
\* returns what _send_notification returns.
SendNotification ==
    /\ Len(email_service.calls) < MaxSends
    /\ \E outcome \in HttpOutcomes :
          email_service' =
             [email_service EXCEPT !.calls =
                 Append(@, send_notification(email_service.base_url,
                                             email_service.api_token, outcome))]
    /\ UNCHANGED <<serviceSide, fs, video, cleanups>>

SpecEmail == InitEmail /\ [][SendNotification]_vars

TypeOK ==
    /\ pc \in {"boot", "idle", "created", "while", "poll", "sleep", "exit", "for", "pm_entry",
               "exists", "download", "extracting", "zipping", "pm_result",
               "send_error_email", "post", "after_pm"}
    /\ sleeping \in {0, poll_sleep, error_sleep}
    /\ queue \subseteq 1..NumMsgs
    /\ receives \in 0..MaxPolls

\* ================================================================ claims
Runs == 1..Len(runs)
\* process_message has returned for run r
Returned(r) == runs[r].ret \in {"True", "False"}
\* consume_messages has finished with run r (its ack decision is taken)
Handled(r) == r < Len(runs) \/ pc \in {"for", "poll", "sleep", "while", "exit"}
\* process_video_from_s3 has returned for run r
HasResult(r) == runs[r].result.status # None
Deletes(h) == {k \in 1..Len(deleteCalls) : deleteCalls[k] = h}
StoreCallsOf(r) == {k \in 1..Len(storeCalls) : storeCalls[k].run = r}
NotifyCallsOf(r) == {k \in 1..Len(notifyCalls) : notifyCalls[k].run = r}
\* index in the batch of the message run r handles
MessageOf(r) == CHOOSE j \in 1..Len(messages) : messages[j].MessageId = runs[r].msg

\* C1: in a batch, delete_message is called for a message iff process_message
\* returned True (the run Completed) for it, once, with the ReceiptHandle of
\* that message; no delete is issued for a message whose run Failed.
C1_DeleteIffCompleted ==
    /\ \A r \in Runs :
          /\ runs[r].handle = messages[MessageOf(r)].ReceiptHandle
          /\ Handled(r) /\ runs[r].ret = "True" /\ runs[r].result.status = COMPLETED
                => Cardinality(Deletes(runs[r].handle)) = 1
          /\ runs[r].ret # "True" \/ runs[r].result.status # COMPLETED
                => Deletes(runs[r].handle) = {}
    /\ \A k \in 1..Len(deleteCalls) :
          \E r \in Runs : runs[r].handle = deleteCalls[k]

C1_Witness ==
    /\ pc = "poll"
    /\ Len(deleteCalls) = 1
    /\ \E r1, r2 \in Runs :
          /\ runs[r1].ret = "True" /\ Deletes(runs[r1].handle) # {}
          /\ runs[r2].ret = "False" /\ runs[r2].result.status = FAILED
          /\ Deletes(runs[r2].handle) = {}

\* C2: a message whose body fails to parse gets no pipeline invocation and no
\* delete, consume_messages does not raise, and when the batch is done every
\* other message of the batch has been processed and acknowledged on its own
\* outcome.
C2_ParseFailureIsolated ==
    /\ "consume_messages" \notin escaped
    /\ \A j \in 1..Len(messages) :
          IF JsonLoads(messages[j].Body).ok
          THEN pc = "poll" =>
                  \E r \in Runs :
                     /\ runs[r].handle = messages[j].ReceiptHandle
                     /\ Returned(r)
                     /\ runs[r].ret = "True" <=> Deletes(runs[r].handle) # {}
          ELSE /\ \A r \in Runs : runs[r].handle # messages[j].ReceiptHandle
               /\ Deletes(messages[j].ReceiptHandle) = {}

C2_Witness ==
    /\ pc = "poll"
    /\ Len(messages) = 2
    /\ ~JsonLoads(messages[1].Body).ok
    /\ Len(runs) = 1
    /\ runs[1].handle = messages[2].ReceiptHandle
    /\ runs[1].ret = "True"
    /\ deleteCalls = <<messages[2].ReceiptHandle>>

\* C3: after a pipeline run has returned, whatever its outcome, neither its
\* downloaded local video file nor its temp_<runId> directory exists.
C3_WorkspaceRemoved ==
    \A r \in Runs :
       HasResult(r) /\ runs[r].uid # None
          => /\ VideoPath(runs[r].uid, runs[r].s3_key) \notin fs
             /\ TempDir(runs[r].uid) \notin fs

C5_AbsentSourceFails ==
    \A k \in 1..Len(storeCalls) :
       storeCalls[k].op = "head_object" /\ storeCalls[k].resp # "200"
          => LET r == storeCalls[k].run IN
             /\ runs[r].result.status = FAILED
             /\ runs[r].result.error = "Video nao encontrado no S3: " \o runs[r].s3_key
             /\ runs[r].ret # "True"
             /\ \A c \in StoreCallsOf(r) : storeCalls[c].op = "head_object"

C5_Witness ==
    \E r \in Runs :
       /\ runs[r].s3_key = "videos/missing.mp4"
       /\ Returned(r)
       /\ \E c \in StoreCallsOf(r) : storeCalls[c].resp = "404"
       /\ runs[r].result.video_id = "not_found"

\* C6: process_video_from_s3 and process_message never raise to their caller:
\* a failure of the existence check, the download, the extraction or the
\* packaging becomes a Failed result carrying an error message, and a False
\* return of process_message.
C6_NeverRaises ==
    /\ "process_video_from_s3" \notin escaped
    /\ "process_message" \notin escaped
    /\ \A r \in Runs :
          /\ runs[r].ret # "raised"
          /\ runs[r].result.status = FAILED =>
                /\ runs[r].result.error # None
                /\ runs[r].ret \in {"running", "False"}
          /\ \A c \in StoreCallsOf(r) :
                storeCalls[c].resp # "200" => runs[r].result.status = FAILED
          /\ Handled(r) /\ Truthy(runs[r].s3_key)
                => runs[r].result.status \in {COMPLETED, FAILED} /\ Returned(r)

C6_Witness ==
    \E r \in Runs :
       /\ \E c \in StoreCallsOf(r) :
             storeCalls[c].op = "download_file" /\ storeCalls[c].resp = "error"
       /\ runs[r].result.status = FAILED
       /\ runs[r].result.error = "download failed"
       /\ runs[r].ret = "False"

\* C7: a Completed result has frame_count > 0, and a run whose extraction
\* yields no frame returns Failed and creates no archive.
C7_CompletedHasFrames ==
    \A r \in Runs :
       /\ runs[r].result.status = COMPLETED => runs[r].result.frame_count > 0
       /\ runs[r].frames = 0
             => /\ runs[r].result.status = FAILED
                /\ runs[r].ret # "True"
                /\ ZipPath(runs[r].uid) \notin fs

C7_Witness ==
    /\ \E r \in Runs :
          runs[r].frames = 0 /\ runs[r].result.status = FAILED /\ Returned(r)
    /\ \E r \in Runs :
          runs[r].result.status = COMPLETED /\ runs[r].result.frame_count = 3

\* C8: a run that returns Completed has uploaded its archive to the artifact
\* store under the output prefix before returning.
C8_CompletedIsPublished ==
    \A r \in Runs :
       runs[r].result.status = COMPLETED
          => \E c \in StoreCallsOf(r) :
                /\ storeCalls[c].op = "upload_file"
                /\ storeCalls[c].key = "processed/" \o runs[r].result.zip_filename

\* C9: with the notification service configured, a finished run of a work
\* item carrying an email has a notification matching its status (completion
\* when Completed, failure when Failed); without an email no notification is
\* sent.
C9_NotificationMatchesStatus ==
    NOTIFICATION_SERVICE_URL =>
       \A r \in Runs :
          Returned(r) /\ HasResult(r)
             => IF Truthy(runs[r].email)
                THEN \E c \in NotifyCallsOf(r) :
                        notifyCalls[c].kind =
                           (IF runs[r].result.status = COMPLETED
                            THEN "completion" ELSE "error")
                ELSE NotifyCallsOf(r) = {}

\* C10: process_message returns without waiting for the notification call:
\* while a notification POST is in flight, the run that issued it has
\* already returned.
C10_ReturnDoesNotWaitForNotification ==
    \A c \in 1..Len(notifyCalls) :
       notifyCalls[c].outcome = "pending" => Returned(notifyCalls[c].run)

\* C11: a notification failure (no service URL configured, a non-success
\* status, a transport error or a timeout) changes neither the status of the
\* run nor the ack decision: whatever the outcome of the call, process_message
\* returns False for the Failed run and its message is not deleted, a
\* Completed run is never notified about nor downgraded, and no exception
\* gets out of _send_error_email.
C11_NotificationFailureHarmless ==
    /\ "_send_error_email" \notin escaped
    /\ \A c \in 1..Len(notifyCalls) :
          LET r == notifyCalls[c].run IN
          /\ runs[r].result.status = FAILED
          /\ notifyCalls[c].outcome # "pending"
                => /\ runs[r].ret = "False"
                   /\ Deletes(runs[r].handle) = {}
    /\ \A r \in Runs :
          /\ runs[r].result.status = FAILED /\ Truthy(runs[r].email) /\ Handled(r)
                => /\ runs[r].ret = "False"
                   /\ Deletes(runs[r].handle) = {}
                   /\ ~NOTIFICATION_SERVICE_URL => NotifyCallsOf(r) = {}
          /\ runs[r].result.status = COMPLETED
                => /\ NotifyCallsOf(r) = {}
                   /\ runs[r].ret \in {"running", "True"}

C11_Witness ==
    \E c \in 1..Len(notifyCalls) :
       /\ notifyCalls[c].outcome = "exception"
       /\ runs[notifyCalls[c].run].ret = "False"
       /\ runs[notifyCalls[c].run].result.status = FAILED
       /\ Handled(notifyCalls[c].run)
       /\ Len(processed_messages) = Len(messages)

\* C12: within a run the steps happen in the order existence check, download,
\* extract, package, cleanup, notify, each one only after its predecessor
\* produced its result: a download follows a positive existence check, the
\* extraction a successful download, the packaging an extraction that gave at
\* least one frame (no archive exists otherwise), the cleanup the extraction
\* or the packaging, and a notification is sent only once the run has its
\* terminal (Failed) result.
StepRank(s) ==
    CASE s = "exists" -> 1
      [] s = "download" -> 2
      [] s = "extract" -> 3
      [] s = "package" -> 4
      [] s = "cleanup" -> 6
      [] s = "notify" -> 7

C12_StepsInOrder ==
    \A r \in Runs :
       LET st == runs[r].steps IN
       /\ \A p, q \in 1..Len(st) : p < q => StepRank(st[p]) < StepRank(st[q])
       /\ \A p \in 1..Len(st) :
             /\ st[p] = "exists" => p = 1
             /\ st[p] = "download"
                   => /\ p > 1 /\ st[p - 1] = "exists"
                      /\ \E c \in StoreCallsOf(r) :
                            /\ storeCalls[c].op = "head_object"
                            /\ storeCalls[c].resp = "200"
             /\ st[p] = "extract"
                   => /\ p > 1 /\ st[p - 1] = "download"
                      /\ \E c \in StoreCallsOf(r) :
                            /\ storeCalls[c].op = "download_file"
                            /\ storeCalls[c].resp = "200"
             /\ st[p] = "package"
                   => /\ p > 1 /\ st[p - 1] = "extract"
                      /\ runs[r].frames > 0
             /\ st[p] = "cleanup" => p > 1 /\ st[p - 1] \in {"extract", "package"}
             /\ st[p] = "notify" => runs[r].result.status = FAILED
       /\ runs[r].uid # None /\ ZipPath(runs[r].uid) \in fs => runs[r].frames > 0

C12_Witness ==
    \E r \in Runs :
       /\ runs[r].steps = <<"exists", "download", "extract", "package", "cleanup",
                            "notify">>
       /\ Returned(r)

\* C13: every pipeline run that has returned performed the cleanup of its
\* temporary workspace exactly once, whichever step failed and on success.
CleanupCount(r) ==
    Cardinality({p \in 1..Len(runs[r].steps) : runs[r].steps[p] = "cleanup"})

C13_CleanupExactlyOnce ==
    \A r \in Runs : HasResult(r) => CleanupCount(r) = 1

\* C14: stop_sqs_consumer only clears is_consuming, and the flag is tested
\* only at the top of a loop iteration: the step that clears it leaves the run
\* in flight, the batch and the queue untouched; a poll is entered only from
\* a loop test that found the flag set; once cleared the flag stays cleared;
\* and when the consumer has left the loop every message of its last batch
\* has been handled.
BatchDone ==
    /\ i = Len(messages) + 1
    /\ \A r \in Runs : Returned(r)
    /\ \A j \in 1..Len(messages) :
          JsonLoads(messages[j].Body).ok
             => \E r \in Runs : runs[r].handle = messages[j].ReceiptHandle

C14_StopTakesEffectAtLoopTop ==
    /\ [](pc = "exit" => ~is_consuming /\ BatchDone)
    /\ [][/\ is_consuming /\ ~is_consuming'
                => UNCHANGED <<NOTIFICATION_SERVICE_URL, bodies, queue, receives,
                               messages, i, processed_messages, returned, pc, runs,
                               fs, nextId, storeCalls, deleteCalls, notifyCalls,
                               escaped, faults, sleeping, receive_raised,
                               collisions>>
          /\ pc' = "poll" /\ pc # "poll" => pc = "while" /\ is_consuming
          /\ receives' # receives => pc = "poll"
          /\ ~is_consuming /\ pc # "created" => ~is_consuming'
          /\ pc \notin OutsideBatch /\ i <= Len(messages)
                => pc' \notin {"sleep", "while", "poll", "exit"}]_vars

C14_Witness ==
    /\ pc = "exit"
    /\ stopped_early
    /\ receives = 1
    /\ Len(messages) = 2
    /\ Len(runs) = 2
    /\ runs[2].ret = "True"
    /\ Len(processed_messages) = 2

\* C15: after a poll that failed with a transport error the consumer loop
\* sleeps the error interval (30 s), not the 5 s of a normal iteration.
C15_LongSleepAfterFailedPoll ==
    pc = "sleep" /\ receive_raised => sleeping = error_sleep

\* C16: consume_messages never raises: when receive_message (or opening the
\* client) fails it returns the empty list, and that call of consume_messages
\* invokes no pipeline run and issues no delete.
C16_FailedPollReturnsEmpty ==
    /\ "consume_messages" \notin escaped
    /\ receive_raised
          => /\ pc \in {"sleep", "while", "poll", "exit"}
             /\ returned = <<>>
             /\ runs = <<>>
             /\ processed_messages = <<>>
             /\ storeCalls = <<>>
             /\ deleteCalls = <<>>
             /\ notifyCalls = <<>>

C16_Witness ==
    /\ receive_raised
    /\ pc = "sleep"
    /\ returned = <<>>
    /\ receives = 2
    /\ queue # {}

C18_NoBufferedItem ==
    pc \in {"sleep", "while", "poll", "exit"}
       => /\ i = Len(messages) + 1
          /\ \A j \in 1..Len(messages) :
                IF JsonLoads(messages[j].Body).ok
                THEN \E r \in Runs :
                        /\ runs[r].handle = messages[j].ReceiptHandle
                        /\ Returned(r)
                        /\ Deletes(runs[r].handle) = {}
                              => messages[j].MessageId \in queue
                ELSE messages[j].MessageId \in queue
          /\ Len(processed_messages) <= Len(runs)
          /\ ~receive_raised => returned = processed_messages

C18_Witness ==
    /\ pc = "sleep"
    /\ Len(messages) = 2
    /\ Len(runs) = 2
    /\ runs[1].ret = "False"
    /\ runs[2].ret = "True"
    /\ Len(returned) = 2
    /\ queue = {messages[1].MessageId}

\* C19: no two pipeline runs use the same local video path, temp directory
\* or archive name, and no run writes a local path that already exists.
C19_UniquePaths ==
    /\ collisions = {}
    /\ \A r1, r2 \in Runs :
          r1 # r2 /\ runs[r1].uid # None /\ runs[r2].uid # None
             => /\ VideoPath(runs[r1].uid, runs[r1].s3_key)
                      # VideoPath(runs[r2].uid, runs[r2].s3_key)
                /\ TempDir(runs[r1].uid) # TempDir(runs[r2].uid)
                /\ ZipFilename(runs[r1].uid) # ZipFilename(runs[r2].uid)

C19_Witness ==
    /\ Len(runs) = 2
    /\ runs[1].s3_key = runs[2].s3_key
    /\ runs[1].result.status = COMPLETED
    /\ runs[2].result.status = COMPLETED
    /\ {ZipPath(runs[1].uid), ZipPath(runs[2].uid)} \subseteq fs

\* C20: every result returned by a run carries an id generated for that run
\* (a uuid4 value), and two runs never return the same id.
UuidValues == {UuidPool[k] : k \in 1..Len(UuidPool)}

C20_FreshResultIds ==
    /\ \A r \in Runs : HasResult(r) => runs[r].result.video_id \in UuidValues
    /\ \A r1, r2 \in Runs :
          r1 # r2 /\ HasResult(r1) /\ HasResult(r2)
             => runs[r1].result.video_id # runs[r2].result.video_id

\* C21: every result returned by a run has status Completed or Failed; its
\* archive name is set iff the status is Completed, and its error message is
\* set iff the status is Failed.
C21_ResultShape ==
    \A r \in Runs :
       /\ Returned(r) /\ Truthy(runs[r].s3_key) => HasResult(r)
       /\ HasResult(r)
             => /\ runs[r].result.status \in {COMPLETED, FAILED}
                /\ runs[r].result.zip_filename # None
                      <=> runs[r].result.status = COMPLETED
                /\ runs[r].result.error # None
                      <=> runs[r].result.status = FAILED

C21_Witness ==
    \E r \in Runs :
       /\ runs[r].result.status = FAILED
       /\ runs[r].result.error = "zip failed"
       /\ runs[r].result.zip_filename = None
       /\ ZipPath(runs[r].uid) \in fs

\* C22: a message without a source key is handed to process_message at most
\* once: after the consumer has handled it, it is not processed again.
C22_MissingKeyNeverRetried ==
    \A m \in 1..NumMsgs :
       JsonLoads(bodies[m]).ok /\ MissingKey(JsonLoads(bodies[m]).body.s3Key)
          => delivery[m].invoked <= 1

\* C23: the consumer retries nothing itself: a batch holds at most one run per
\* message, a run that returned False leaves its message on the queue with no
\* delete issued, and every delivery of a message is processed, however many
\* there were before (no counter caps them).
Parsable(j) == JsonLoads(messages[j].Body).ok

C23_NoConsumerRetry ==
    /\ \A r1, r2 \in Runs : r1 # r2 => runs[r1].msg # runs[r2].msg
    /\ \A r \in Runs :
          Handled(r) /\ runs[r].ret = "False"
             => /\ runs[r].msg \in queue
                /\ Deletes(runs[r].handle) = {}
    /\ \A m \in 1..NumMsgs : delivery[m].invoked <= delivery[m].received
    /\ pc \in {"sleep", "while", "poll", "exit"}
          => \A j \in 1..Len(messages) :
                Parsable(j)
                   => delivery[messages[j].MessageId].invoked
                         = delivery[messages[j].MessageId].received

C23_Witness ==
    /\ pc = "sleep"
    /\ \E r \in Runs :
          /\ runs[r].ret = "False"
          /\ runs[r].result.status = FAILED
          /\ runs[r].msg \in queue
          /\ delivery[runs[r].msg].received = 2
          /\ delivery[runs[r].msg].invoked = 2

\* C24: redelivering a message whose source object is absent has no
\* externally visible effect beyond handling it once: however often it is
\* delivered, no more than one notification is posted for it.
C24_AbsentSourceRedeliveryNoOp ==
    \A m \in 1..NumMsgs :
       LET parsed == JsonLoads(bodies[m]) IN
       parsed.ok /\ Truthy(parsed.body.s3Key) /\ parsed.body.s3Key \notin StoredKeys
          => delivery[m].notified <= 1

\* C25 (as stated): a run started by the queue and a run started by the manual
\* HTTP trigger for the same source key, with the same failures of external
\* calls, behave alike: same terminal status, same store calls, same steps
\* (validation, cleanup, notification included), same number of notifications.
QueueRun(r) == runs[r].source = "sqs" /\ Returned(r)
ManualRunDone(r) == runs[r].source = "manual_api" /\ runs[r].ret = "logged"
StoreSeq(r) == SelectSeq(storeCalls, LAMBDA c : c.run = r)
SameStoreCalls(r1, r2) ==
    /\ Len(StoreSeq(r1)) = Len(StoreSeq(r2))
    /\ \A k \in 1..Len(StoreSeq(r1)) :
          /\ StoreSeq(r1)[k].op = StoreSeq(r2)[k].op
          /\ StoreSeq(r1)[k].key = StoreSeq(r2)[k].key
          /\ StoreSeq(r1)[k].resp = StoreSeq(r2)[k].resp
SameItem(rq, rm) ==
    /\ QueueRun(rq)
    /\ ManualRunDone(rm)
    /\ runs[rq].s3_key = runs[rm].s3_key
    /\ runs[rq].faulted = runs[rm].faulted

SansNotify(steps) == SelectSeq(steps, LAMBDA x : x # "notify")
LocalFiles(r) ==
    IF runs[r].uid = None THEN <<FALSE, FALSE, FALSE>>
    ELSE <<VideoPath(runs[r].uid, runs[r].s3_key) \in fs,
           TempDir(runs[r].uid) \in fs,
           runs[r].result.status = COMPLETED /\ ZipPath(runs[r].uid) \in fs>>

ManualRuns == {r \in Runs : runs[r].source = "manual_api"}

C26_AcceptedThenBackground ==
    /\ \A k \in 1..Len(http) :
          /\ http[k].status_code = (IF processor THEN 202 ELSE 500)
          /\ http[k].status_code = 202 => /\ http[k].status = "processing"
                                          /\ http[k].task # "none"
          /\ http[k].status_code = 500 => http[k].task = "none"
    /\ Cardinality(ManualRuns)
          = Cardinality({k \in 1..Len(http) : http[k].task \in {"running", "done"}})
    /\ ~processor => ManualRuns = {}

C26_Witness ==
    \E k \in 1..Len(http), r \in ManualRuns :
       /\ http[k].status_code = 202
       /\ http[k].status = "processing"
       /\ http[k].task = "done"
       /\ runs[r].s3_key = http[k].s3_key
       /\ runs[r].result.status = FAILED

\* C27: extraction and packaging run on the one worker pool only: a run in
\* one of these steps is suspended, with exactly one work item for that step
\* on the pool (running or queued) until its future is done; at most 5 work
\* items execute on the pool at any instant, whatever the number of
\* concurrent runs; a run outside these steps has nothing on the pool.
QueuedItems == {executor.queue[k] : k \in 1..Len(executor.queue)}
ItemsOf(t) == {w \in executor.running \cup QueuedItems : w.task = t}

C27_SharedBoundedPool ==
    /\ Cardinality(executor.running) <= 5
    /\ executor.queue # <<>> => Cardinality(executor.running) = 5
    /\ executor.running \cap QueuedItems = {}
    /\ \A t \in 1..Len(tasks) :
          IF tasks[t].pc \in PoolSteps
          THEN /\ loop # t
               /\ IF tasks[t].future = "done"
                  THEN ItemsOf(t) = {}
                  ELSE ItemsOf(t) = {[task |-> t, fn |-> tasks[t].pc]}
          ELSE ItemsOf(t) = {}

C27_Witness ==
    /\ Cardinality(executor.running) = 5
    /\ executor.queue # <<>>
    /\ \E w \in executor.running : w.fn = "extract_frames_from_video"
    /\ \E w \in executor.running : w.fn = "create_zip_from_images"

\* C28: while a network call of a run is in flight (queue receive and delete,
\* store existence check and download, notification) the run is suspended:
\* the event loop is not held by the coroutine that made the call.
NetworkCalls == {"receive_message", "delete_message", "video_exists",
                 "download_video", "_send_error_email"}

C28_NetworkCallsSuspend ==
    \A t \in 1..Len(tasks) : tasks[t].pc \in NetworkCalls => loop # t

\* C29: when consume_messages has returned normally, the list it returned has
\* one entry per message of the batch that was parsed and handled without an
\* exception, in batch order, pairing the parsed body with the value
\* process_message returned; an empty batch gives the empty list.
EntryLess(r) == runs[r].ret = "True" /\ runs[r].msg \in queue

C29_ReturnedEntries ==
    pc \in {"sleep", "while", "poll", "exit"} /\ ~receive_raised
       => LET kept == SelectSeq([r \in Runs |-> r], LAMBDA r : ~EntryLess(r)) IN
          /\ Len(runs) = Cardinality({j \in 1..Len(messages) : Parsable(j)})
          /\ Len(returned) = Len(kept)
          /\ \A k \in 1..Len(kept) :
                /\ returned[k].message = [s3Key |-> runs[kept[k]].s3_key,
                                          email |-> runs[kept[k]].email]
                /\ returned[k].processed = runs[kept[k]].ret
          /\ messages = <<>> => returned = <<>>

C29_Witness ==
    /\ pc = "sleep"
    /\ Len(messages) = 2
    /\ Len(runs) = 2
    /\ Len(returned) = 1
    /\ returned[1].processed = "False"
    /\ EntryLess(2)

\* C30: in a batch, the result and the ack decision of a message depend on its
\* own run only: the status is the one its source key and the failures of its
\* own calls give, the message is deleted iff its own run returned True, and
\* every parsable message of the batch is handled whatever happened to the
\* others (failed run, unparsable body, failed delete).
ExpectedStatus(key, faulted) ==
    IF faulted # None \/ key \notin StoredKeys \/ FramesOf(key) = 0
    THEN FAILED ELSE COMPLETED

C30_ItemsIndependent ==
    /\ \A r \in Runs :
          /\ HasResult(r)
                => runs[r].result.status
                      = ExpectedStatus(runs[r].s3_key, runs[r].faulted)
          /\ Returned(r)
                => (runs[r].ret = "True" <=> runs[r].result.status = COMPLETED)
          /\ Handled(r)
                => Cardinality(Deletes(runs[r].handle))
                      = (IF runs[r].ret = "True" THEN 1 ELSE 0)
    /\ pc \in {"sleep", "while", "poll", "exit"}
          => \A j \in 1..Len(messages) :
                Parsable(j)
                   => \E r \in Runs : /\ runs[r].handle = messages[j].ReceiptHandle
                                      /\ Returned(r)

C30_Witness ==
    /\ pc = "sleep"
    /\ Len(runs) = 2
    /\ EntryLess(1)
    /\ runs[2].ret = "True"
    /\ runs[2].msg \notin queue
    /\ returned = <<Entry([s3Key |-> runs[2].s3_key, email |-> runs[2].email],
                          "True")>>

\* C31: once startup_event has run, the S3 service and the processor are
\* initialised; the consumer task exists exactly when the queue URL is
\* configured, and without a queue URL nothing is ever polled; after
\* shutdown_event the processor's consumer flag is cleared.
C31_StartupInitialises ==
    pc # "boot"
       => /\ processor
          /\ s3_service
          /\ consumer_task = SQS_QUEUE_URL
          /\ ~SQS_QUEUE_URL => receives = 0
          /\ shutdown => ~is_consuming

\* C32: a stop_sqs_consumer call is never lost: once shutdown_event has
\* stopped the processor's consumer, is_consuming stays False, so the loop
\* test that follows ends the loop.
C32_StopNotLost ==
    (shutdown /\ processor) => ~is_consuming

\* C37: a download request for a file that does not exist is answered 404
\* with a detail naming the file and listing the available archives; 500 is
\* answered only when the processor is not initialised.
C37_MissingFileIs404 ==
    \A k \in 1..Len(downloads) :
       LET d == downloads[k]
       IN /\ (d.initialised /\ ~d.exists)
                => /\ d.status_code = 404
                   /\ d.detail.message = "Arquivo nao encontrado: " \o d.filename
          /\ d.status_code = 500 => ~d.initialised

\* C33: when delete_message fails after a Completed run, the exception does
\* not leave consume_messages, the message stays on the queue and has no entry
\* in the returned list; when the message is delivered again the whole
\* pipeline runs again and writes a second archive whose name differs from
\* the first, and the first archive is still there.
DeleteFailed(r) ==
    /\ Handled(r)
    /\ runs[r].ret = "True"
    /\ Deletes(runs[r].handle) # {}
    /\ runs[r].msg \in queue

FullRun == <<"exists", "download", "extract", "package", "cleanup">>

C33_DeleteFailureRedelivers ==
    /\ "consume_messages" \notin escaped
    /\ pc \in {"sleep", "while", "poll", "exit"} /\ ~receive_raised
          => Len(returned) = Len(runs) - Cardinality({r \in Runs : DeleteFailed(r)})
    /\ \A r \in Runs :
          runs[r].result.status = COMPLETED /\ runs[r].source = "sqs"
             => LET a == delivery[runs[r].msg].archives IN
                /\ runs[r].steps = FullRun
                /\ a # <<>>
                /\ a[Len(a)] = ZipPath(runs[r].uid)
                /\ Len(a) <= delivery[runs[r].msg].received
    /\ \A m \in 1..NumMsgs :
          LET a == delivery[m].archives IN
          /\ \A j \in 1..Len(a) : a[j] \in fs /\ a[j] \notin collisions
          /\ \A j, k \in 1..Len(a) : j # k => a[j] # a[k]
          /\ Len(a) <= delivery[m].received
          /\ m \notin queue => Len(a) >= 1

C33_Witness ==
    /\ pc = "sleep"
    /\ \E r \in Runs :
          LET a == delivery[runs[r].msg].archives IN
          /\ runs[r].result.status = COMPLETED
          /\ delivery[runs[r].msg].received = 2
          /\ Len(a) = 2
          /\ a[1] # a[2]
          /\ {a[1], a[2]} \subseteq fs
          /\ runs[r].msg \notin queue

\* C35: video_exists returns True exactly when the head request succeeds and
\* False on any other answer, an error of the store included, without
\* raising: after a True the run goes on to the download, after a False it
\* ends with the "not found" result and issues no download.
EntersDownload(r) ==
    \/ \E p \in 1..Len(runs[r].steps) : runs[r].steps[p] = "download"
    \/ r = Len(runs) /\ pc = "download"

C35_ExistenceCheckTotal ==
    \A k \in 1..Len(storeCalls) :
       storeCalls[k].op = "head_object"
          => LET r == storeCalls[k].run
                 resp == storeCalls[k].resp
             IN /\ resp = "200" <=> EntersDownload(r)
                /\ resp = "error" <=> runs[r].faulted = "exists"
                /\ resp # "200"
                      => /\ runs[r].result = NotFoundResult(runs[r].s3_key)
                         /\ \A c \in StoreCallsOf(r) :
                               storeCalls[c].op # "download_file"
                         /\ runs[r].uid = None

C35_Witness ==
    \E r \in Runs :
       /\ runs[r].s3_key \in StoredKeys
       /\ runs[r].faulted = "exists"
       /\ Returned(r)
       /\ runs[r].result.video_id = "not_found"
       /\ \A c \in StoreCallsOf(r) :
             storeCalls[c].op = "head_object" /\ storeCalls[c].resp = "error"

\* C34: while the consumer loop runs and the queue keeps delivering what was
\* not deleted, under weak fairness of the consumer's steps and with calls
\* that eventually succeed, every message that parses, names a source that
\* exists and yields at least one frame is eventually deleted from the queue.
WellFormed(m) ==
    LET parsed == JsonLoads(bodies[m]) IN
    /\ parsed.ok
    /\ Truthy(parsed.body.s3Key)
    /\ parsed.body.s3Key \in StoredKeys
    /\ FramesOf(parsed.body.s3Key) >= 1

C34_EventuallyDeleted ==
    \A m \in 1..NumMsgs : (m \in queue /\ WellFormed(m)) ~> (m \notin queue)

C34_Witness ==
    \E m \in 1..NumMsgs :
       /\ WellFormed(m)
       /\ delivery[m].received = 2
       /\ faults >= 1
       /\ m \notin queue

\* C36: for a video of N readable frames at native rate F sampled at R frames
\* per second with F >= R, extract_frames_from_video saves exactly the frames
\* whose index is a multiple of floor(F/R), in increasing order, that is
\* ceil(N / floor(F/R)) frames, which is 10 frames for a 10-second video
\* sampled at 1 frame per second; a video without readable frames gives the
\* empty list.
C36_SampledFrames ==
    /\ (video.at = "returned" /\ video.fps10 >= 10 * video.frames_per_second)
          => LET step == video.fps10 \div (10 * video.frames_per_second)
                 saved == video.saved_frames
             IN /\ saved = [j \in 1..Len(saved) |-> (j - 1) * step]
                /\ Len(saved) = (video.frames + step - 1) \div step
                /\ (video.frames = video.fps10 /\ video.frames_per_second = 1)
                      => Len(saved) = 10
    /\ (video.at \in {"returned", "raised"} /\ video.frames = 0)
          => video.at = "returned" /\ video.saved_frames = <<>>

\* C38: cleanup_temp_files removes every given path that exists, a directory
\* with what it holds, removes nothing else, leaves the tree as it is for
\* given paths that do not exist, and a second call with the same paths
\* changes nothing.
Removed(paths, f) == (paths \cap f) \cup UNION {Contents(d) \cap f : d \in paths \cap f}

C38_CleanupIdempotent ==
    /\ \A k \in 1..Len(cleanups) :
          LET c == cleanups[k] IN
          /\ c.after = c.before \ Removed(c.paths, c.before)
          /\ c.after \cap c.paths = {}
          /\ \A d \in c.paths \cap Directories : Contents(d) \cap c.after = {}
          /\ c.paths \cap c.before = {} => c.after = c.before
    /\ \A k \in 1..Len(cleanups) - 1 :
          cleanups[k + 1].paths = cleanups[k].paths
             => /\ cleanups[k + 1].before = cleanups[k].after
                /\ cleanups[k + 1].after = cleanups[k].after
    /\ Len(cleanups) > 0 => fs = cleanups[Len(cleanups)].after

C38_Witness ==
    /\ Len(cleanups) = 2
    /\ cleanups[1].paths = cleanups[2].paths
    /\ \E d \in cleanups[1].paths \cap Directories :
          Contents(d) \cap cleanups[1].before # {}
    /\ \E p \in cleanups[1].paths : p \notin cleanups[1].before
    /\ cleanups[1].after # cleanups[1].before
    /\ cleanups[2].after = cleanups[2].before

\* C39: _send_notification never raises and issues at most one POST; it
\* returns True exactly when the base URL and the token are configured and
\* the response status is 200, 201 or 204, and False when the configuration
\* is incomplete (no POST), on any other status, and on a transport error or
\* timeout.
Configured == Truthy(email_service.base_url) /\ Truthy(email_service.api_token)

C39_NotificationOutcome ==
    \A k \in 1..Len(email_service.calls) :
       LET c == email_service.calls[k] IN
       /\ c.ret \in {"True", "False"}
       /\ c.attempts <= 1
       /\ ~Configured => c.attempts = 0
       /\ c.ret = "True" <=> /\ Configured
                             /\ c.attempts = 1
                             /\ c.error = None
                             /\ c.status_code \in {200, 201, 204}

C39_Witness ==
    /\ Len(email_service.calls) = 2
    /\ email_service.calls[1].ret = "True"
    /\ email_service.calls[1].status_code = 204
    /\ email_service.calls[2].ret = "False"
    /\ email_service.calls[2].error = "ReadTimeout"

====
